---- MODULE Spec2Model ----
(***************************************************************************)
(* A model of junit2htmlreport/matrix.py: the ReportMatrix aggregate index *)
(* (add_report), the outcome combinator (combined_result) and the two      *)
(* renderers (HtmlReportMatrix.summary, TextReportMatrix.summary).         *)
(*                                                                         *)
(* Python dicts are functions (DOMAIN = the keys), Python lists are        *)
(* sequences.  A parsed report is a sequence of suites, a suite is the     *)
(* ordered mapping suite.classes written as a sequence of                  *)
(* [name, cases] entries with distinct names (the order is the order in    *)
(* which "for testclass in suite.classes" visits them), and a test case is *)
(* a record [name, outcome, properties].                                   *)
(***************************************************************************)
EXTENDS Integers, Sequences, FiniteSets, TLC

VARIABLES
    kind,          \* "html" (HtmlReportMatrix) or "text" (TextReportMatrix)
    reports,       \* self.reports:      basename -> parsed report
    cases,         \* self.cases:        class -> case -> axis key -> test case
    classes,       \* self.classes:      class -> basename -> class subtree
    casenames,     \* self.casenames:    class -> list of case names
    result_stats,  \* self.result_stats: outcome -> count
    properties,    \* self.properties:   property axis -> list of test cases
    outfiles,      \* the files HtmlReportMatrix.add_report has written
    ret,           \* what the last call returned
    log,           \* history: the <<basename, parsed report>> of every add_report
    results        \* the argument of a direct combined_result call

vars == <<kind, reports, cases, classes, casenames, result_stats, properties,
          outfiles, ret, log, results>>

---------------------------------------------------------------------------
(* Outcome vocabulary *)

PASSED == "passed"
FAILED == "failed"
SKIPPED == "skipped"
ABSENT == "absent"
UNTESTED == "untested"
PARTIAL_PASS == "partial pass"
PARTIAL_FAIL == "partial failure"
TOTAL_FAIL == "total failure"

ElementaryOutcomes == {PASSED, FAILED, SKIPPED}

\* str.title() on the outcome strings the module formats
title(s) ==
    CASE s = PASSED -> "Passed"
      [] s = FAILED -> "Failed"
      [] s = SKIPPED -> "Skipped"
      [] s = ABSENT -> "Absent"
      [] s = UNTESTED -> "Untested"
      [] s = PARTIAL_PASS -> "Partial Pass"
      [] s = PARTIAL_FAIL -> "Partial Failure"
      [] s = TOTAL_FAIL -> "Total Failure"
      [] OTHER -> s

ReportMatrix_short_outcome(outcome) ==
    IF outcome = PASSED THEN "/"
    ELSE IF outcome = SKIPPED THEN "s"
    ELSE IF outcome = FAILED THEN "f"
    ELSE IF outcome = TOTAL_FAIL THEN "F"
    ELSE IF outcome = PARTIAL_PASS THEN "%"
    ELSE IF outcome = PARTIAL_FAIL THEN "X"
    ELSE IF outcome = UNTESTED THEN "U"
    ELSE "?"

HtmlReportMatrix_short_outcome(outcome) ==
    IF outcome = PASSED THEN "ok" ELSE ReportMatrix_short_outcome(outcome)

\* self.short_outcome, dispatched on the class of self
short_outcome(k, outcome) ==
    IF k = "html" THEN HtmlReportMatrix_short_outcome(outcome)
    ELSE ReportMatrix_short_outcome(outcome)

---------------------------------------------------------------------------
(* Dict and list helpers *)

EmptyDict == <<>>

Range(s) == {s[i] : i \in DOMAIN s}

\* d[k] = v
Put(d, k, v) == [x \in (DOMAIN d) \cup {k} |-> IF x = k THEN v ELSE d[x]]

\* d.get(k, default)
Get(d, k, default) == IF k \in DOMAIN d THEN d[k] ELSE default

\* if k not in d: d[k] = v
SetDefault(d, k, v) == IF k \in DOMAIN d THEN d ELSE Put(d, k, v)

---------------------------------------------------------------------------
(* Inputs *)

\* Cut-off of the run: the number of add_report calls
MaxReports == 2
\* Longest argument of a direct combined_result call
MaxResults == 3
\* Largest prop_count given to the constructor
MaxPropCount == 2

\* prop_prefix: "" stands for None and for the empty string, both falsy
PropPrefixes == {"", "REQ"}

\* Paths handed to add_report, and os.path.basename of each
Paths == {"fileA.xml", "old/fileA.xml", "fileB.xml"}

basename_of(path) ==
    CASE path = "old/fileA.xml" -> "fileA.xml"
      [] OTHER -> path

\* Case names as the parser gives them, and str.strip() of each
strip(s) ==
    CASE s = " caseZ " -> "caseZ"
      [] OTHER -> s

\* testcase.basename().strip()
Basename(testcase) == strip(testcase.name)

\* testcase.outcome(), testcase.skipped, testcase.failure
Outcome(testcase) == testcase.outcome
Skipped(testcase) == testcase.outcome = SKIPPED
Failure(testcase) == testcase.outcome = FAILED

\* The test cases reports are made of.  "REQ1", "REQ2" are axes when declared,
\* "SRS9" never is; "classY" is also the name of a class.
caseZ_passed == [name |-> "caseZ", outcome |-> PASSED, properties |-> <<"REQ1">>]
caseZ_failed == [name |-> " caseZ ", outcome |-> FAILED, properties |-> <<>>]
classY_skipped ==
    [name |-> "classY", outcome |-> SKIPPED, properties |-> <<"SRS9", "REQ2">>]

TestCases == {caseZ_passed, caseZ_failed, classY_skipped}

\* One entry of suite.classes
Class(name, caselist) == [name |-> name, cases |-> caselist]

\* The case lists of a class subtree
CaseLists == {
    <<>>,
    <<caseZ_passed>>,
    <<caseZ_failed>>,
    <<caseZ_passed, caseZ_failed>>,
    <<classY_skipped, caseZ_passed>>
}

\* What parser.Junit(filename) may return: a sequence of suites, each the
\* sequence of its suite.classes entries
ParsedReports ==
    {<< <<Class("classY", cl)>> >> : cl \in CaseLists}
    \cup {
        <<>>,
        << <<Class("classW", <<classY_skipped>>), Class("classY", <<caseZ_passed>>)>> >>,
        << <<Class("classY", <<caseZ_passed>>)>>, <<Class("classY", <<caseZ_failed>>)>> >>
    }

---------------------------------------------------------------------------
(* ReportMatrix: the index is the record                                   *)
(* [reports, cases, classes, casenames, result_stats, properties]          *)

RECURSIVE InitProperties(_, _)
\* for i in range(1, prop_count + 1): self.properties[prop_prefix + str(i)] = []
InitProperties(prop_prefix, i) ==
    IF i = 0 THEN EmptyDict
    ELSE Put(InitProperties(prop_prefix, i - 1), prop_prefix \o ToString(i), <<>>)

\* ReportMatrix.__init__
ReportMatrix_init(prop_prefix, prop_count) ==
    [reports |-> EmptyDict,
     cases |-> EmptyDict,
     classes |-> EmptyDict,
     casenames |-> EmptyDict,
     result_stats |-> EmptyDict,
     properties |-> IF prop_prefix # "" /\ prop_count # 0
                    THEN InitProperties(prop_prefix, prop_count)
                    ELSE EmptyDict]

\* if basename not in self.casenames: self.casenames[testclass].append(basename)
\* (the membership test is on the dict self.casenames, whose keys are class names)
RegisterCasename(cn, testclass, basename) ==
    IF basename \notin DOMAIN cn
    THEN [cn EXCEPT ![testclass] = Append(@, basename)]
    ELSE cn

\* StoreCase that keeps the entry a key already has
StoreCase_keep_first(cs, testclass, basename, key, testcase) ==
    LET c1 == SetDefault(cs, testclass, EmptyDict)
        c2 == [c1 EXCEPT ![testclass] = SetDefault(@, basename, EmptyDict)]
    IN  [c2 EXCEPT ![testclass][basename] = SetDefault(@, key, testcase)]

\* self.cases[testclass][basename][key] = testcase, creating the levels above
StoreCase(cs, testclass, basename, key, testcase) ==
    LET c1 == SetDefault(cs, testclass, EmptyDict)
        c2 == [c1 EXCEPT ![testclass] = SetDefault(@, basename, EmptyDict)]
    IN  [c2 EXCEPT ![testclass][basename] = Put(@, key, testcase)]

\* self.result_stats[outcome] = 1 + self.result_stats.get(outcome, 0)
CountOutcome(rs, outcome) == Put(rs, outcome, 1 + Get(rs, outcome, 0))

\* AddProperty that makes a column of a value it does not know
AddProperty_add_column(m, testclass, basename, testcase, value) ==
    [m EXCEPT !.properties = Put(@, value, Append(Get(@, value, <<>>), testcase)),
              !.cases = StoreCase(@, testclass, basename, value, testcase)]

\* One round of "for prop in testcase.properties"
AddProperty(m, testclass, basename, testcase, value) ==
    IF value \notin DOMAIN m.properties
    THEN m  \* the warning is printed and the loop continues
    ELSE [m EXCEPT !.properties[value] = Append(@, testcase),
                   !.cases = StoreCase(@, testclass, basename, value, testcase)]

RECURSIVE AddProperties(_, _, _, _, _)
\* for prop in testcase.properties, the first i of them
AddProperties(m, testclass, basename, testcase, i) ==
    IF i = 0 THEN m
    ELSE AddProperty(AddProperties(m, testclass, basename, testcase, i - 1),
                     testclass, basename, testcase, testcase.properties[i])

\* IngestCase that counts a case only when its (class, case, filename) entry is new
IngestCase_count_new_entry(m, filename, testclass, testcase) ==
    LET basename == Basename(testcase)
        known == /\ testclass \in DOMAIN m.cases
                 /\ basename \in DOMAIN m.cases[testclass]
                 /\ filename \in DOMAIN m.cases[testclass][basename]
        m1 == [m EXCEPT
                 !.casenames = RegisterCasename(@, testclass, basename),
                 !.cases = StoreCase(@, testclass, basename, filename, testcase),
                 !.result_stats = IF known THEN @
                                  ELSE CountOutcome(@, Outcome(testcase))]
    IN  AddProperties(m1, testclass, basename, testcase, Len(testcase.properties))

\* IngestCase that counts a case only when its (class, case) is new
IngestCase_count_new_case(m, filename, testclass, testcase) ==
    LET basename == Basename(testcase)
        known == /\ testclass \in DOMAIN m.cases
                 /\ basename \in DOMAIN m.cases[testclass]
        m1 == [m EXCEPT
                 !.casenames = RegisterCasename(@, testclass, basename),
                 !.cases = StoreCase(@, testclass, basename, filename, testcase),
                 !.result_stats = IF known THEN @
                                  ELSE CountOutcome(@, Outcome(testcase))]
    IN  AddProperties(m1, testclass, basename, testcase, Len(testcase.properties))

\* One round of "for testcase in self.classes[testclass][filename].cases"
IngestCase(m, filename, testclass, testcase) ==
    LET basename == Basename(testcase)
        m1 == [m EXCEPT
                 !.casenames = RegisterCasename(@, testclass, basename),
                 !.cases = StoreCase(@, testclass, basename, filename, testcase),
                 !.result_stats = CountOutcome(@, Outcome(testcase))]
    IN  AddProperties(m1, testclass, basename, testcase, Len(testcase.properties))

RECURSIVE IngestCases(_, _, _, _, _)
IngestCases(m, filename, testclass, caselist, i) ==
    IF i = 0 THEN m
    ELSE IngestCase(IngestCases(m, filename, testclass, caselist, i - 1),
                    filename, testclass, caselist[i])

\* One round of "for testclass in suite.classes"
IngestClass(m, filename, entry) ==
    LET testclass == entry.name
        m1 == [m EXCEPT
                 !.classes = [SetDefault(@, testclass, EmptyDict)
                                 EXCEPT ![testclass] = Put(@, filename, entry.cases)],
                 !.casenames = SetDefault(@, testclass, <<>>)]
    IN  IngestCases(m1, filename, testclass, m1.classes[testclass][filename],
                    Len(m1.classes[testclass][filename]))

RECURSIVE IngestClasses(_, _, _, _)
IngestClasses(m, filename, suite, i) ==
    IF i = 0 THEN m
    ELSE IngestClass(IngestClasses(m, filename, suite, i - 1), filename, suite[i])

RECURSIVE IngestSuites(_, _, _, _)
\* for suite in parsed.suites, the first i of them
IngestSuites(m, filename, parsed, i) ==
    IF i = 0 THEN m
    ELSE IngestClasses(IngestSuites(m, filename, parsed, i - 1), filename,
                       parsed[i], Len(parsed[i]))

\* ReportMatrix.add_report, parsed being what parser.Junit(filename=path) returned
add_report(m, path, parsed) ==
    LET filename == basename_of(path)
        m1 == [m EXCEPT !.reports = Put(@, filename, parsed)]
    IN  IngestSuites(m1, filename, parsed, Len(parsed))

\* The strings that get sorted, in the order Python's sorted() gives them
StringOrder ==
    <<"caseZ", "classW", "classY", "failed", "fileA.xml", "fileB.xml", "passed",
      "skipped">>

StrRank(s) == CHOOSE i \in DOMAIN StringOrder : StringOrder[i] = s

\* sorted(S, key=...), key being the function from the elements of S to their
\* (distinct) sort keys
SortedBy(S, key) ==
    CHOOSE seq \in [1..Cardinality(S) -> S] :
        /\ Range(seq) = S
        /\ \A i, j \in 1..Cardinality(S) : i < j => key[seq[i]] < key[seq[j]]

\* sorted(S) for a set of strings
Sorted(S) == SortedBy(S, [x \in S |-> StrRank(x)])

\* natural_sort_key: the digit runs compare as integers.  Every axis is
\* prop_prefix + str(i) for the one prop_prefix of the constructor, so the key
\* orders the axes by i
natural_sort_key(s) ==
    CHOOSE i \in 1..MaxPropCount :
        \E prop_prefix \in PropPrefixes : s = prop_prefix \o ToString(i)

\* ReportMatrix.property_order
property_order(m) == SortedBy(DOMAIN m.properties,
             [axis \in DOMAIN m.properties |-> natural_sort_key(axis)])

\* ReportMatrix.report_order
report_order(m) == Sorted(DOMAIN m.reports)

\* combined_result with the SKIPPED test ahead of the FAILED test
combined_result_skipped_first(k, rs) ==
    IF PASSED \in Range(rs)
    THEN IF SKIPPED \in Range(rs)
         THEN <<short_outcome(k, PARTIAL_PASS), title(PARTIAL_PASS)>>
         ELSE IF FAILED \in Range(rs)
         THEN <<short_outcome(k, PARTIAL_FAIL), title(PARTIAL_FAIL)>>
         ELSE <<short_outcome(k, PASSED), title(PASSED)>>
    ELSE IF SKIPPED \in Range(rs)
    THEN <<short_outcome(k, UNTESTED), title(UNTESTED)>>
    ELSE IF FAILED \in Range(rs)
    THEN <<short_outcome(k, TOTAL_FAIL), title(TOTAL_FAIL)>>
    ELSE <<" ", "">>

\* ReportMatrix.combined_result, a pair (short code, label)
combined_result(k, rs) ==
    IF PASSED \in Range(rs)
    THEN IF FAILED \in Range(rs)
         THEN <<short_outcome(k, PARTIAL_FAIL), title(PARTIAL_FAIL)>>
         ELSE IF SKIPPED \in Range(rs)
         THEN <<short_outcome(k, PARTIAL_PASS), title(PARTIAL_PASS)>>
         ELSE <<short_outcome(k, PASSED), title(PASSED)>>
    ELSE IF FAILED \in Range(rs)
    THEN <<short_outcome(k, TOTAL_FAIL), title(TOTAL_FAIL)>>
    ELSE IF SKIPPED \in Range(rs)
    THEN <<short_outcome(k, UNTESTED), title(UNTESTED)>>
    ELSE <<" ", "">>

\* sorted(set(self.casenames[classname]))
SortedCasenames(m, classname) == Sorted(Range(m.casenames[classname]))

---------------------------------------------------------------------------
(* HtmlReportMatrix.summary.  The page is modelled by its parts: the header *)
(* row (the statistics table and one cell per axis) and, per class in the  *)
(* order the dict self.classes is iterated, one row per case name.         *)

\* HtmlReportMatrix.get_stats_table
get_stats_table(m) ==
    LET keys == Sorted(DOMAIN m.result_stats)
    IN  [i \in 1..Len(keys) |->
            [outcome |-> keys[i], label |-> title(keys[i]),
             count |-> m.result_stats[keys[i]]]]

\* One round of "for axis in self.property_order()": the cell's class and text
HtmlCell(m, classname, casename, axis) ==
    IF axis \notin DOMAIN m.cases[classname][casename]
    THEN [class |-> ABSENT, cell |-> ""]
    ELSE LET testcase == m.cases[classname][casename][axis]
         IN  [class |-> Outcome(testcase),
              cell |-> IF Outcome(testcase) = ABSENT THEN ""
                       ELSE short_outcome("html", Outcome(testcase))]

\* One round of "for casename in sorted(set(self.casenames[classname]))"
HtmlRow(m, classname, casename) ==
    LET axes == property_order(m)
        cells == [i \in 1..Len(axes) |-> HtmlCell(m, classname, casename, axes[i])]
        case_results == [i \in 1..Len(axes) |-> cells[i].class]
    IN  [casename |-> casename,
         cells |-> cells,
         combined |-> combined_result("html", case_results)[2]]

\* if property_class.get(axis) in [None, ABSENT]: property_class[axis] = cellclass,
\* for the cells of one row
UpdatePropertyClass(property_class, axes, row) ==
    [axis \in (DOMAIN property_class) \cup Range(axes) |->
        IF Get(property_class, axis, ABSENT) = ABSENT
        THEN LET i == CHOOSE i \in 1..Len(axes) : axes[i] = axis
             IN  row.cells[i].class
        ELSE property_class[axis]]

HtmlRows(m, classname) ==
    LET names == SortedCasenames(m, classname)
    IN  [i \in 1..Len(names) |-> HtmlRow(m, classname, names[i])]

RECURSIVE PropertyClassAfterRows(_, _, _, _)
PropertyClassAfterRows(property_class, axes, rows, i) ==
    IF i = 0 THEN property_class
    ELSE UpdatePropertyClass(PropertyClassAfterRows(property_class, axes, rows, i - 1),
                             axes, rows[i])

RECURSIVE PropertyClassAfterClasses(_, _, _)
\* property_class after the rows of the first i classes of order
PropertyClassAfterClasses(m, order, i) ==
    IF i = 0 THEN EmptyDict
    ELSE LET rows == HtmlRows(m, order[i])
         IN  PropertyClassAfterRows(PropertyClassAfterClasses(m, order, i - 1),
                                    property_order(m), rows, Len(rows))

\* The header row: the statistics table goes in with the first axis.  No axis
\* ends in ".xml" (each ends in the digits of str(i)), so label is the axis
HtmlHeader(m, property_class) ==
    LET axes == property_order(m)
        cell(i) == [t |-> "axis",
                    class |-> Get(property_class, axes[i], "absent"),
                    label |-> axes[i]]
        stats == [t |-> "stats", table |-> get_stats_table(m)]
    IN  IF Len(axes) = 0 THEN <<>>
        ELSE <<stats>> \o [i \in 1..Len(axes) |-> cell(i)]

\* HtmlReportMatrix.summary, order being the order "for classname in self.classes"
\* visits the classes in
HtmlReportMatrix_summary(m, order) ==
    [kind |-> "html",
     header |-> HtmlHeader(m, PropertyClassAfterClasses(m, order, Len(order))),
     body |-> [i \in 1..Len(order) |->
                  [classname |-> order[i],
                   colspan |-> Cardinality(DOMAIN m.properties) + 3,
                   rows |-> HtmlRows(m, order[i])]]]

---------------------------------------------------------------------------
(* TextReportMatrix.summary, by its parts: the axis headings, per class    *)
(* one line per case name, and the "Test Results" block.                   *)

\* One round of "for axis in self.property_order()": the two characters added to
\* case_data and what is appended to case_results
TextCell(m, classname, casename, axis) ==
    IF axis \notin DOMAIN m.cases[classname][casename]
    THEN [data |-> "  ", results |-> <<>>]
    ELSE LET testcase == m.cases[classname][casename][axis]
         IN  IF Skipped(testcase) THEN [data |-> "s ", results |-> <<SKIPPED>>]
             ELSE IF Failure(testcase) THEN [data |-> "f ", results |-> <<FAILED>>]
             ELSE [data |-> "/ ", results |-> <<PASSED>>]

RECURSIVE TextCaseResults(_, _)
TextCaseResults(cells, i) ==
    IF i = 0 THEN <<>> ELSE TextCaseResults(cells, i - 1) \o cells[i].results

TextRow(m, classname, casename) ==
    LET axes == property_order(m)
        cells == [i \in 1..Len(axes) |-> TextCell(m, classname, casename, axes[i])]
        case_results == TextCaseResults(cells, Len(axes))
    IN  [casename |-> casename,
         case_data |-> [i \in 1..Len(axes) |-> cells[i].data],
         combined |-> combined_result("text", case_results)]

TextRows(m, classname) ==
    LET names == SortedCasenames(m, classname)
    IN  [i \in 1..Len(names) |-> TextRow(m, classname, names[i])]

\* for outcome in sorted(self.result_stats)
TextStats(m) ==
    LET keys == Sorted(DOMAIN m.result_stats)
    IN  [i \in 1..Len(keys) |->
            [label |-> title(keys[i]), count |-> m.result_stats[keys[i]]]]

TextReportMatrix_summary(m, order) ==
    [kind |-> "text",
     headings |-> property_order(m),
     body |-> [i \in 1..Len(order) |->
                  [classname |-> order[i], rows |-> TextRows(m, order[i])]],
     stats |-> TextStats(m)]

\* The orders a dict with the keys S can be iterated in
Orders(S) == {o \in [1..Cardinality(S) -> S] : Range(o) = S}

\* self, as a record
Self ==
    [reports |-> reports, cases |-> cases, classes |-> classes,
     casenames |-> casenames, result_stats |-> result_stats,
     properties |-> properties]

None == [kind |-> "None"]

---------------------------------------------------------------------------
(* The run: construction, then add_report and summary calls *)

Init ==
    /\ kind \in {"html", "text"}
    /\ \E prop_prefix \in PropPrefixes, prop_count \in 0..MaxPropCount :
         LET m == ReportMatrix_init(prop_prefix, prop_count)
         IN  /\ reports = m.reports
             /\ cases = m.cases
             /\ classes = m.classes
             /\ casenames = m.casenames
             /\ result_stats = m.result_stats
             /\ properties = m.properties
    /\ outfiles = {}
    /\ ret = None
    /\ log = <<>>
    /\ results = <<>>

\* add_report(path); HtmlReportMatrix.add_report also writes the report's own page
AddReport ==
    /\ Len(log) < MaxReports
    /\ \E path \in Paths, parsed \in ParsedReports :
         LET m == add_report(Self, path, parsed)
         IN  /\ reports' = m.reports
             /\ cases' = m.cases
             /\ classes' = m.classes
             /\ casenames' = m.casenames
             /\ result_stats' = m.result_stats
             /\ properties' = m.properties
             /\ outfiles' = IF kind = "html"
                            THEN outfiles \cup {basename_of(path) \o ".html"}
                            ELSE outfiles
             /\ log' = Append(log, <<basename_of(path), parsed>>)
    /\ ret' = None
    /\ UNCHANGED <<kind, results>>

\* summary()
Summary ==
    /\ \E order \in Orders(DOMAIN classes) :
         ret' = IF kind = "html" THEN HtmlReportMatrix_summary(Self, order)
                ELSE TextReportMatrix_summary(Self, order)
    /\ UNCHANGED <<kind, reports, cases, classes, casenames, result_stats,
                   properties, outfiles, log, results>>

Next == AddReport \/ Summary

Spec == Init /\ [][Next]_vars

---------------------------------------------------------------------------
(* Direct calls of combined_result on a list of outcomes *)

Results == UNION {[1..n -> {PASSED, FAILED, SKIPPED, ABSENT}] : n \in 0..MaxResults}

InitCombine ==
    /\ kind \in {"html", "text"}
    /\ reports = EmptyDict
    /\ cases = EmptyDict
    /\ classes = EmptyDict
    /\ casenames = EmptyDict
    /\ result_stats = EmptyDict
    /\ properties = EmptyDict
    /\ outfiles = {}
    /\ ret = None
    /\ log = <<>>
    /\ results \in Results

\* combined_result(results)
CombinedResult ==
    /\ ret = None
    /\ ret' = [kind |-> "combined", value |-> combined_result(kind, results)]
    /\ UNCHANGED <<kind, reports, cases, classes, casenames, result_stats,
                   properties, outfiles, log, results>>

NextCombine == CombinedResult

SpecCombine == InitCombine /\ [][NextCombine]_vars

---------------------------------------------------------------------------
(* The claims *)

\* The label of the first-match table of the outcome combinator, for the set
\* of outcomes that are present
TableLabel(present) ==
    IF PASSED \in present /\ FAILED \in present THEN "Partial Failure"
    ELSE IF PASSED \in present /\ SKIPPED \in present THEN "Partial Pass"
    ELSE IF PASSED \in present THEN "Passed"
    ELSE IF FAILED \in present THEN "Total Failure"
    ELSE IF SKIPPED \in present THEN "Untested"
    ELSE ""

\* C1: combined_result returns the classification of the first-match table
\* (PartialFail, PartialPass, Passed, TotalFail, Untested, else the blank code
\* with the empty label), which depends only on which of Passed, Failed and
\* Skipped occur in its argument.
C1_CombinedResultTable ==
    ret.kind = "combined" =>
        LET present == Range(results) \cap ElementaryOutcomes
        IN  /\ ret.value[2] = TableLabel(present)
            /\ present = {} => ret.value = <<" ", "">>

C1_Witness ==
    /\ ret.kind = "combined"
    /\ Len(results) = 3
    /\ results[1] = SKIPPED /\ results[2] = FAILED /\ results[3] = PASSED
    /\ ret.value[2] = "Partial Failure"

\* An index with the axis schema of self and nothing ingested
Fresh == [ReportMatrix_init("", 0) EXCEPT
            !.properties = [axis \in DOMAIN properties |-> <<>>]]

RECURSIVE Replay(_, _, _)
\* The index after the add_report calls lg[order[1]], ..., lg[order[i]] on Fresh
Replay(lg, order, i) ==
    IF i = 0 THEN Fresh
    ELSE add_report(Replay(lg, order, i - 1), lg[order[i]][1], lg[order[i]][2])

\* The test-case occurrences of the ingested reports, by position: call r,
\* suite s, class entry c, case k
Occurrences ==
    {<<r, s, c, k>> \in
        UNION {UNION {UNION {{<<r0, s0, c0, k0>> :
                                k0 \in DOMAIN log[r0][2][s0][c0].cases} :
                             c0 \in DOMAIN log[r0][2][s0]} :
                      s0 \in DOMAIN log[r0][2]} :
               r0 \in DOMAIN log} : TRUE}

CaseAt(occ) == log[occ[1]][2][occ[2]][occ[3]].cases[occ[4]]
ClassAt(occ) == log[occ[1]][2][occ[2]][occ[3]].name
FileAt(occ) == log[occ[1]][1]

IsSummary == ret.kind \in {"html", "text"}

\* The combined label of a rendered row
RowLabel(row) == IF ret.kind = "html" THEN row.combined ELSE row.combined[2]

\* The outcomes a case has over all the axes it has a result on
AxisOutcomes(classname, casename) ==
    {Outcome(cases[classname][casename][axis]) :
        axis \in DOMAIN cases[classname][casename]}

\* C2: the combined outcome a summary reports for a (class, case) row is the
\* combinator applied to the outcomes the case has on every axis it has a result
\* on, source-report axes and property axes alike.
C2_CombinedOverAllAxes ==
    IsSummary =>
        \A b \in DOMAIN ret.body : \A i \in DOMAIN ret.body[b].rows :
            LET row == ret.body[b].rows[i]
            IN  RowLabel(row) =
                    TableLabel(AxisOutcomes(ret.body[b].classname, row.casename))

\* C3: for each outcome, its global counter is the number of ingested test-case
\* occurrences with that outcome (so the counters sum to the number of
\* occurrences), whatever properties the cases carry and whether or not their
\* (class, case, filename) entries already existed.
C3_CountersCountOccurrences ==
    /\ DOMAIN result_stats \subseteq ElementaryOutcomes
    /\ \A o \in ElementaryOutcomes :
         Get(result_stats, o, 0) =
            Cardinality({occ \in Occurrences : Outcome(CaseAt(occ)) = o})

\* A case with a declared and an undeclared property was ingested twice under
\* the same basename
C3_Witness ==
    /\ Len(log) = 2
    /\ log[1][1] = log[2][1]
    /\ "REQ2" \in DOMAIN properties
    /\ \E o1, o2 \in Occurrences :
         /\ o1[1] = 1 /\ o2[1] = 2
         /\ CaseAt(o1) = classY_skipped /\ CaseAt(o2) = classY_skipped
         /\ ClassAt(o1) = ClassAt(o2)
    /\ Get(result_stats, SKIPPED, 0) = 2

\* The (class, case, test case) entries the index cs holds under the axis key
AxisEntries(cs, key) ==
    {<<c, n, cs[c][n][key]>> :
        <<c, n>> \in {<<c0, n0>> \in UNION {{<<c1, n1>> : n1 \in DOMAIN cs[c1]} :
                                             c1 \in DOMAIN cs} :
                        key \in DOMAIN cs[c0][n0]}}

IsReingest == /\ Len(log') = Len(log) + 1
              /\ log'[Len(log')][1] \in DOMAIN reports

\* What the report just ingested leaves when it is ingested alone
R2Alone == add_report(Fresh, log'[Len(log')][1], log'[Len(log')][2])

CountersAdd(alone) ==
    \A o \in ElementaryOutcomes :
        Get(result_stats', o, 0) =
            Get(result_stats, o, 0) + Get(alone.result_stats, o, 0)

\* C4 as stated: ingesting R2 under a basename f that already holds a report
\* leaves under axis f exactly the entries R2 alone leaves, and the counters add up.
C4_ReingestReplacesAxis ==
    [][IsReingest =>
          LET f == log'[Len(log')][1]
              alone == R2Alone
          IN  /\ AxisEntries(cases', f) = AxisEntries(alone.cases, f)
              /\ CountersAdd(alone)]_vars

\* C4 as amended: ingesting R2 under a basename f that already holds a report
\* leaves under axis f the entries R2 alone leaves (last write wins for each
\* (class, case) of R2) together with the earlier entries of f whose
\* (class, case) R2 does not contain, and the counters add up.
C4_ReingestOverwritesPerCase ==
    [][IsReingest =>
          LET f == log'[Len(log')][1]
              alone == R2Alone
              new == AxisEntries(alone.cases, f)
              kept == {e \in AxisEntries(cases, f) :
                          \A e2 \in new : <<e2[1], e2[2]>> # <<e[1], e[2]>>}
          IN  /\ AxisEntries(cases', f) = new \cup kept
              /\ CountersAdd(alone)]_vars

\* The same basename was ingested twice; one entry of the axis was overwritten
\* by the second report and another, which the second report lacks, survives
C4_Witness ==
    /\ Len(log) = 2
    /\ log[1][1] = log[2][1]
    /\ LET f == log[1][1]
           first == AxisEntries(add_report(Fresh, f, log[1][2]).cases, f)
           second == AxisEntries(add_report(Fresh, f, log[2][2]).cases, f)
       IN  /\ \E e \in first : e \in AxisEntries(cases, f) /\ e \notin second
           /\ \E e \in first, e2 \in second :
                /\ <<e[1], e[2]>> = <<e2[1], e2[2]>>
                /\ e[3] # e2[3]
                /\ e2 \in AxisEntries(cases, f)

\* What C5 says of the index once reports are ingested: for every ingested
\* case that declares a value which is no axis, no entry is stored under that
\* value, the case is stored under its source-file axis, its outcome is counted,
\* each of its declared values that is an axis records it, and the cases that
\* follow it in the report are stored too
UnknownPropertySkipped ==
    LET occs == Occurrences
        stored(o) ==
            /\ ClassAt(o) \in DOMAIN cases
            /\ Basename(CaseAt(o)) \in DOMAIN cases[ClassAt(o)]
            /\ FileAt(o) \in DOMAIN cases[ClassAt(o)][Basename(CaseAt(o))]
    IN  \A occ \in occs :
          LET testcase == CaseAt(occ)
              unknown == Range(testcase.properties) \ DOMAIN properties
              known == Range(testcase.properties) \cap DOMAIN properties
          IN  unknown # {} =>
                /\ \A v \in unknown : \A c \in DOMAIN cases : \A n \in DOMAIN cases[c] :
                      v \notin DOMAIN cases[c][n]
                /\ stored(occ)
                /\ Get(result_stats, Outcome(testcase), 0) =
                      Cardinality({o \in occs : Outcome(CaseAt(o)) = Outcome(testcase)})
                /\ \A w \in known :
                      /\ testcase \in Range(properties[w])
                      /\ w \in DOMAIN cases[ClassAt(occ)][Basename(testcase)]
                /\ \A o \in occs : o[1] = occ[1] => stored(o)

\* C5: a property value that is not in the axis set does not make add_report
\* fail: the set of property axes stays as it is, no entry is stored under the
\* value, and the rest of the case and of the report is ingested as usual.
C5_UnknownPropertySkipped ==
    [][log' # log =>
          DOMAIN properties' = DOMAIN properties /\ UnknownPropertySkipped']_vars

\* A case with an undeclared value ahead of a declared one, followed by another
\* case in the same report, has been ingested
C5_Witness ==
    /\ "REQ2" \in DOMAIN properties
    /\ "SRS9" \notin DOMAIN properties
    /\ \E occ, nxt \in Occurrences :
         /\ CaseAt(occ) = classY_skipped
         /\ <<nxt[1], nxt[2], nxt[3]>> = <<occ[1], occ[2], occ[3]>>
         /\ nxt[4] = occ[4] + 1
         /\ classY_skipped \in Range(properties["REQ2"])
         /\ FileAt(nxt) \in DOMAIN cases[ClassAt(nxt)][Basename(CaseAt(nxt))]

\* C6: when the ingested reports have pairwise distinct basenames, ingesting
\* them in any other order into a fresh index with the same axes gives the same
\* global counters.
C6_CountersOrderIndependent ==
    (\A i, j \in DOMAIN log : i # j => log[i][1] # log[j][1]) =>
        \A order \in Orders(DOMAIN log) :
            Replay(log, order, Len(log)).result_stats = result_stats

\* Two reports with distinct basenames and different outcomes for the same case
C6_Witness ==
    /\ Len(log) = 2
    /\ log[1][1] # log[2][1]
    /\ log[1][2] = << <<Class("classY", <<caseZ_passed>>)>> >>
    /\ log[2][2] = << <<Class("classY", <<caseZ_failed>>)>> >>
    /\ result_stats = [o \in {PASSED, FAILED} |-> 1]

\* The statistics block a summary should hold: one entry per key of the global
\* counter, in ascending order of the key
ExpectedStats ==
    LET keys == Sorted(DOMAIN result_stats)
    IN  [i \in 1..Len(keys) |->
            [label |-> title(keys[i]), count |-> result_stats[keys[i]]]]

\* The statistics blocks a summary holds
StatsBlocks ==
    IF ret.kind = "text" THEN {ret.stats}
    ELSE {[i \in DOMAIN tok.table |->
              [label |-> tok.table[i].label, count |-> tok.table[i].count]] :
            tok \in {t \in Range(ret.header) : t.t = "stats"}}

\* C7: in every reachable state of the index, zero reports, zero classes and
\* zero property axes included, the summary of either renderer holds the
\* statistics block: the counter's keys in ascending order, each with its count.
C7_StatsBlockEmitted ==
    IsSummary => ExpectedStats \in StatsBlocks

\* The case names a summary has a row for under a class, as a sequence
RowNames(classname) ==
    LET b == CHOOSE b \in DOMAIN ret.body : ret.body[b].classname = classname
    IN  [i \in DOMAIN ret.body[b].rows |-> ret.body[b].rows[i].casename]

\* C8: a summary has, under each class, exactly one row for every case that
\* has an entry in the class/case/axis map.
C8_OneRowPerCase ==
    IsSummary =>
        \A c \in DOMAIN cases : \A n \in DOMAIN cases[c] :
            Cardinality({i \in DOMAIN RowNames(c) : RowNames(c)[i] = n}) = 1

\* C9: the case-name registry of a class holds no name twice.
C9_RegistryHasNoDuplicates ==
    \A c \in DOMAIN casenames :
        \A i, j \in DOMAIN casenames[c] :
            i # j => casenames[c][i] # casenames[c][j]

\* C10: in the markup summary the header cell of a property axis has a
\* non-absent class exactly when some (class, case) of the index has an entry
\* on that axis.
C10_HeaderClassIffAxisHasResult ==
    ret.kind = "html" =>
        \A tok \in Range(ret.header) :
            tok.t = "axis" =>
                (tok.class # ABSENT <=>
                    \E c \in DOMAIN cases : \E n \in DOMAIN cases[c] :
                        tok.label \in DOMAIN cases[c][n])

====
